---- MODULE Spec2Model ----
(***************************************************************************)
(* Model of MK_Line_Length_Check_3.24.py: the tag normalizer, the table    *)
(* locator, the segment analyzer, the entry point and the click handler of *)
(* the rendered report.                                                    *)
(*                                                                         *)
(* A Python string is a sequence of one-character strings.  A character    *)
(* beyond U+00FF cannot be written in a string here; the ones the code     *)
(* treats specially are written by their code point name ("U+2003"), which *)
(* no sequence of one-character strings can be mistaken for.               *)
(***************************************************************************)
EXTENDS Integers, Sequences, FiniteSets, TLC

VARIABLES
    pc,          \* position of the running function
    text,        \* argument of normalize_with_linebreaks
    normalized,  \* its return value
    doc,         \* the document: a sequence of tables, each a sequence of rows
    char_limit,  \* the character limit handed to analyze_document
    located,     \* what find_bilingual_table returned
    cursor,      \* 0-based index of the next row of the segment loop; 0 before it
    violations,  \* the list analyze_document accumulates and returns
    error,       \* the exception that left analyze_document, if any
    env,         \* what main reads: dependency, directory listing, typed limit
    calls,       \* the calls main has made, in order
    report       \* the rendered target containers of the report page

vars == <<pc, text, normalized, doc, char_limit, located, cursor, violations,
          error, env, calls, report>>

----------------------------------------------------------------------------
(* Bounds of the model *)

MaxNormLen == 4
MaxLen == 4
MaxDocRows == 3
MaxLimitLen == 3
MaxPieces == 3

----------------------------------------------------------------------------
(* Characters and string primitives *)

LF == "\n"
CR == "\r"
SP == " "

None == "None"

TAB == "\t"
VT == ""    \* U+000B
FF == "\f"   \* U+000C
FS == ""    \* U+001C
GS == ""    \* U+001D
RS == ""    \* U+001E
US == ""    \* U+001F
NEL == ""    \* U+0085
NBSP == " "    \* U+00A0

\* The characters of str.isspace() beyond U+00FF
UnicodeSpaces ==
    { "U+1680", "U+2000", "U+2001", "U+2002", "U+2003", "U+2004", "U+2005",
      "U+2006", "U+2007", "U+2008", "U+2009", "U+200A", "U+2028", "U+2029",
      "U+202F", "U+205F", "U+3000" }

\* The characters str.strip() and str.split() take for whitespace
Whitespace ==
    {TAB, LF, VT, FF, CR, FS, GS, RS, US, SP, NEL, NBSP} \cup UnicodeSpaces

\* "".join(ss)
RECURSIVE Concat(_)
Concat(ss) ==
    IF ss = <<>> THEN <<>>
    ELSE IF Len(ss) = 1 THEN ss[1]
    ELSE Concat(SubSeq(ss, 1, Len(ss) \div 2))
            \o Concat(SubSeq(ss, Len(ss) \div 2 + 1, Len(ss)))

StringsUpTo(alphabet, n) == UNION {[1..k -> alphabet] : k \in 0..n}

RECURSIVE LStrip(_)
LStrip(s) ==
    IF s = <<>> THEN <<>>
    ELSE IF Head(s) \in Whitespace THEN LStrip(Tail(s)) ELSE s

RECURSIVE RStrip(_)
RStrip(s) ==
    IF s = <<>> THEN <<>>
    ELSE IF s[Len(s)] \in Whitespace THEN RStrip(SubSeq(s, 1, Len(s) - 1)) ELSE s

\* str.strip()
Strip(s) == RStrip(LStrip(s))

\* str.split("\n"): the pieces between line breaks; "" splits to [""]
RECURSIVE SplitFrom(_, _, _)
SplitFrom(s, i, cur) ==
    IF i > Len(s) THEN <<cur>>
    ELSE IF s[i] = LF THEN <<cur>> \o SplitFrom(s, i + 1, <<>>)
    ELSE SplitFrom(s, i + 1, Append(cur, s[i]))

SplitLines(s) == SplitFrom(s, 1, <<>>)

\* line[:k] and line[k:] with Python's handling of a negative or large k
SliceBound(s, k) ==
    IF k < 0 THEN (IF Len(s) + k < 0 THEN 0 ELSE Len(s) + k)
    ELSE IF k > Len(s) THEN Len(s) ELSE k

SliceTo(s, k) == SubSeq(s, 1, SliceBound(s, k))

SliceFrom(s, k) == SubSeq(s, SliceBound(s, k) + 1, Len(s))

\* html.escape(s, quote=True), one character
EscapeChar(c) ==
    CASE c = "&" -> <<"&", "a", "m", "p", ";">>
      [] c = "<" -> <<"&", "l", "t", ";">>
      [] c = ">" -> <<"&", "g", "t", ";">>
      [] c = "\"" -> <<"&", "q", "u", "o", "t", ";">>
      [] c = "'" -> <<"&", "#", "x", "2", "7", ";">>
      [] OTHER -> <<c>>

Escape(s) == Concat([i \in 1..Len(s) |-> EscapeChar(s[i])])

----------------------------------------------------------------------------
(* normalize_with_linebreaks *)

RECURSIVE FirstIndexFrom(_, _, _)
FirstIndexFrom(s, c, i) ==
    IF i > Len(s) THEN 0
    ELSE IF s[i] = c THEN i ELSE FirstIndexFrom(s, c, i + 1)

Closer(c) ==
    CASE c = "<" -> ">"
      [] c = "[" -> "]"
      [] c = "{" -> "}"
      [] OTHER -> None

\* The last index of the match of tag_pattern that starts at i, or 0: an
\* opener, one or more characters that are not its closer, the closer.
TagEnd(s, i) ==
    IF Closer(s[i]) = None THEN 0
    ELSE LET j == FirstIndexFrom(s, Closer(s[i]), i + 1)
         IN  IF j >= i + 2 THEN j ELSE 0

\* A substitution that gives one line break to a whole run of adjacent tags
RECURSIVE ReSubTagsMerged(_, _)
ReSubTagsMerged(s, i) ==
    IF i > Len(s) THEN <<>>
    ELSE LET e == TagEnd(s, i)
         IN  IF e > 0
             THEN (IF e + 1 <= Len(s) /\ TagEnd(s, e + 1) > 0 THEN <<>> ELSE <<LF>>)
                      \o ReSubTagsMerged(s, e + 1)
             ELSE <<s[i]>> \o ReSubTagsMerged(s, i + 1)

\* re.sub(tag_pattern, "\n", text): leftmost matches, left to right
RECURSIVE ReSubTags(_, _)
ReSubTags(s, i) ==
    IF i > Len(s) THEN <<>>
    ELSE LET e == TagEnd(s, i)
         IN  IF e > 0 THEN <<LF>> \o ReSubTags(s, e + 1)
             ELSE <<s[i]>> \o ReSubTags(s, i + 1)

\* .replace("\r\n", "\n")
RECURSIVE ReplaceCRLF(_)
ReplaceCRLF(s) ==
    IF s = <<>> THEN <<>>
    ELSE IF Len(s) >= 2 /\ s[1] = CR /\ s[2] = LF
         THEN <<LF>> \o ReplaceCRLF(SubSeq(s, 3, Len(s)))
         ELSE <<s[1]>> \o ReplaceCRLF(Tail(s))

\* .replace("\r", "\n")
ReplaceCR(s) == [i \in 1..Len(s) |-> IF s[i] = CR THEN LF ELSE s[i]]

\* The normalizer without its tag substitution
normalize_line_endings_only(t) ==
    IF t = <<>> THEN <<>>
    ELSE ReplaceCR(ReplaceCRLF(t))

normalize_with_linebreaks(t) ==
    IF t = <<>> THEN <<>>
    ELSE ReplaceCR(ReplaceCRLF(ReSubTags(t, 1)))

----------------------------------------------------------------------------
(* Specification of the normalizer alone *)

NormAlphabet == {"a", "<", ">", "[", "]", "{", "}", CR, LF}

Idle ==
    /\ doc = <<>>
    /\ char_limit = 0
    /\ located = <<>>
    /\ cursor = 0
    /\ violations = <<>>
    /\ error = [type |-> "None", args |-> <<>>]
    /\ env = None
    /\ calls = <<>>
    /\ report = [summary |-> [kind |-> "None", total |-> 0, limit |-> 0], rows |-> <<>>]

\* Tags of the three styles and of two lengths, and what may stand between
\* them
Pieces ==
    { <<"<", "a", ">">>, <<"[", "a", "]">>, <<"{", "a", "b", "}">>,
      <<"a">>, <<CR>>, <<LF>>, <<"[">>, <<"]">> }

\* Texts of up to MaxPieces pieces
PieceTexts == { Concat(ps) : ps \in UNION {[1..k -> Pieces] : k \in 0..MaxPieces} }

InitNorm ==
    /\ pc = "normalize"
    /\ text \in StringsUpTo(NormAlphabet, MaxNormLen) \cup PieceTexts
    /\ normalized = None
    /\ Idle

Normalize ==
    /\ pc = "normalize"
    /\ normalized' = normalize_with_linebreaks(text)
    /\ pc' = "normalized"
    /\ UNCHANGED <<text, doc, char_limit, located, cursor, violations, error,
                   env, calls, report>>

NextNorm == Normalize

SpecNorm == InitNorm /\ [][NextNorm]_vars

----------------------------------------------------------------------------
(* C2 *)

Count(s, P(_)) == Cardinality({i \in 1..Len(s) : P(s[i])})

\* The positions of the input covered by a tag match
RECURSIVE TagCover(_, _)
TagCover(s, i) ==
    IF i > Len(s) THEN {}
    ELSE LET e == TagEnd(s, i)
         IN  IF e > 0 THEN (i..e) \cup TagCover(s, e + 1) ELSE TagCover(s, i + 1)

RECURSIVE TagCount(_, _)
TagCount(s, i) ==
    IF i > Len(s) THEN 0
    ELSE LET e == TagEnd(s, i)
         IN  IF e > 0 THEN 1 + TagCount(s, e + 1) ELSE TagCount(s, i + 1)

\* Line endings of the input outside tags: "\r\n" is one, a lone "\r" is one,
\* a lone "\n" is one.
LineEndings(s) ==
    LET out == (1..Len(s)) \ TagCover(s, 1)
    IN  Cardinality({i \in out :
            \/ s[i] = CR
            \/ s[i] = LF /\ ~(i - 1 \in out /\ s[i - 1] = CR)})

PlainChars(s) ==
    Cardinality({i \in (1..Len(s)) \ TagCover(s, 1) : s[i] \notin {CR, LF}})

\* The lone "\r" of the input that stand directly before a tag match: with
\* the line break of the tag each forms one "\r\n", a single line ending
CRsBeforeTag(s) ==
    { i \in (1..Len(s)) \ TagCover(s, 1) :
        /\ s[i] = CR
        /\ i + 1 <= Len(s)
        /\ TagEnd(s, i + 1) > 0 }

\* The characters of the input outside tags that are no line ending, in order
KeptChars(s) ==
    LET kept == SelectSeq([i \in 1..Len(s) |-> <<i, s[i]>>],
                          LAMBDA p : p[1] \notin TagCover(s, 1) /\ p[2] \notin {CR, LF})
    IN  [k \in 1..Len(kept) |-> kept[k][2]]

\* C2: every tag match of the three styles becomes exactly one line break,
\* whatever its length: the output holds one line break per tag and one per
\* line ending of the input (a "\r" directly before a tag ends its line
\* with the line break of that tag); a text without line endings gets as many
\* line breaks as it has tags; a text of k tags and nothing else becomes k
\* line breaks; and the other characters of the output are the characters of
\* the input outside tags, none added.
C2_EachTagOneLineBreak ==
    pc = "normalized" =>
        /\ Count(normalized, LAMBDA c : c = LF)
              = TagCount(text, 1) + LineEndings(text)
                    - Cardinality(CRsBeforeTag(text))
        /\ LineEndings(text) = 0 =>
              Count(normalized, LAMBDA c : c = LF) = TagCount(text, 1)
        /\ TagCover(text, 1) = 1..Len(text) =>
              normalized = [k \in 1..TagCount(text, 1) |-> LF]
        /\ SelectSeq(normalized, LAMBDA c : c # LF) = KeptChars(text)
        /\ Count(normalized, LAMBDA c : c # LF) <= PlainChars(text)

\* Three adjacent tags, one of each style and not all of one length, have
\* become three line breaks
C2_Witness ==
    /\ pc = "normalized"
    /\ TagCount(text, 1) = 3
    /\ TagCover(text, 1) = 1..Len(text)
    /\ Len(text) = 10
    /\ \E i, j, k \in 1..Len(text) : text[i] = "<" /\ text[j] = "[" /\ text[k] = "{"
    /\ normalized = <<LF, LF, LF>>

----------------------------------------------------------------------------
(* find_bilingual_table *)

CellID == <<"I", "D">>

\* The (None, None, None) that find_bilingual_table returns for no table
NotFound == <<>>

\* header_cells = [c.text.strip() for c in row.cells]
HeaderCells(row) == [i \in 1..Len(row) |-> Strip(row[i])]

\* "ID" in header_cells and len(header_cells) >= 3
IsHeaderRow(row) ==
    /\ \E i \in 1..Len(row) : HeaderCells(row)[i] = CellID
    /\ Len(row) >= 3

\* header_cells.index("ID"), 0-based
RECURSIVE IndexOfID(_, _)
IndexOfID(cells, i) ==
    IF cells[i] = CellID THEN i - 1 ELSE IndexOfID(cells, i + 1)

\* for row_index, row in enumerate(table.rows), from row r (1-based) on
RECURSIVE FindInRows(_, _)
FindInRows(table, r) ==
    IF r > Len(table) THEN NotFound
    ELSE IF IsHeaderRow(table[r])
         THEN <<r - 1, IndexOfID(HeaderCells(table[r]), 1)>>
         ELSE FindInRows(table, r + 1)

\* for table in doc.tables, from table t (1-based) on.  The table object is
\* stood for by its 0-based position in doc.tables.
RECURSIVE FindInTables(_, _)
FindInTables(d, t) ==
    IF t > Len(d) THEN NotFound
    ELSE LET hit == FindInRows(d[t], 1)
         IN  IF hit # NotFound THEN <<t - 1, hit[1], hit[2]>>
             ELSE FindInTables(d, t + 1)

\* The search with a later table preferred to an earlier one
RECURSIVE FindInTablesLast(_, _)
FindInTablesLast(d, t) ==
    IF t < 1 THEN NotFound
    ELSE LET hit == FindInRows(d[t], 1)
         IN  IF hit # NotFound THEN <<t - 1, hit[1], hit[2]>>
             ELSE FindInTablesLast(d, t - 1)

find_bilingual_table_last(d) == FindInTablesLast(d, Len(d))

find_bilingual_table(d) == FindInTables(d, 1)

----------------------------------------------------------------------------
(* analyze_document *)

BR == <<"<", "b", "r", ">">>

SpanOpen ==
    <<"<", "s", "p", "a", "n", " ", "c", "l", "a", "s", "s", "=", "\"",
      "o", "v", "e", "r", "f", "l", "o", "w", "\"", ">">>

SpanClose == <<"<", "/", "s", "p", "a", "n", ">">>

AllLines(lines) == lines

\* [l for l in lines if l.strip() != ""]
NonEmptyLines(lines) == SelectSeq(lines, LAMBDA l : Strip(l) # <<>>)

\* [len(l) for l in non_empty_lines]
Lengths(lines) == [i \in 1..Len(lines) |-> Len(lines[i])]

RECURSIVE MaxOf(_)
MaxOf(ns) ==
    IF Len(ns) = 1 THEN ns[1]
    ELSE LET m == MaxOf(Tail(ns)) IN IF ns[1] >= m THEN ns[1] ELSE m

RECURSIVE SumOf(_)
SumOf(ns) == IF ns = <<>> THEN 0 ELSE ns[1] + SumOf(Tail(ns))

WithinLimitStrict(max_len, limit) == max_len < limit

\* max_len <= char_limit: the segment is skipped
WithinLimit(max_len, limit) == max_len <= limit

\* One pass of the loop over the lines that builds highlighted_lines
HighlightLine(line, limit) ==
    IF line = <<>> THEN BR
    ELSE IF Len(line) <= limit THEN Escape(line) \o BR
    ELSE Escape(SliceTo(line, limit)) \o SpanOpen
            \o Escape(SliceFrom(line, limit)) \o SpanClose \o BR

HighlightLines(lines, limit) ==
    Concat([i \in 1..Len(lines) |-> HighlightLine(lines[i], limit)])

TargetColumnPastEnd(trg_idx, header) == trg_idx > Len(header)

\* trg_idx >= len(header_cells)
TargetColumnMissing(trg_idx, header) == trg_idx >= Len(header)

\* The body of the segment loop for one row: the records it appends
SegmentRecords(row, id_idx, limit) ==
    LET seg_id == Strip(row[id_idx + 1])
        src_text == row[id_idx + 2]
        trg_text_original == row[id_idx + 3]
        lines == SplitLines(normalize_with_linebreaks(trg_text_original))
        non_empty_lines == NonEmptyLines(lines)
        lengths == Lengths(non_empty_lines)
    IN  IF non_empty_lines = <<>> THEN <<>>
        ELSE IF WithinLimit(MaxOf(lengths), limit) THEN <<>>
        ELSE << [id |-> seg_id,
                 source |-> src_text,
                 target |-> trg_text_original,
                 max_len |-> MaxOf(lengths),
                 segment_len |-> SumOf(lengths),
                 line_lengths |-> lengths,
                 highlighted_target_html |-> HighlightLines(lines, limit)] >>

NoError == [type |-> "None", args |-> <<>>]

\* row.cells[i] on a row with too few cells
IndexError == [type |-> "IndexError", args |-> <<"tuple index out of range">>]

\* Lines 112-132: locate the table, derive the column indices, check the header
Locate ==
    /\ pc = "analyze"
    /\ LET hit == find_bilingual_table(doc)
       IN  /\ located' = hit
           /\ IF hit = NotFound
              THEN pc' = "returned" /\ UNCHANGED cursor
              ELSE IF TargetColumnMissing(hit[3] + 2, HeaderCells(doc[hit[1] + 1][hit[2] + 1]))
                   THEN pc' = "returned" /\ UNCHANGED cursor
                   ELSE pc' = "loop" /\ cursor' = hit[2] + 1
    /\ UNCHANGED <<text, normalized, doc, char_limit, violations, error, env,
                   calls, report>>

TheTable == doc[located[1] + 1]

\* Lines 135-185: one iteration of the loop over table.rows[header_row_index + 1:]
SegmentRow ==
    /\ pc = "loop"
    /\ cursor < Len(TheTable)
    /\ LET row == TheTable[cursor + 1]
       IN  IF Len(row) < located[3] + 3
           THEN /\ error' = IndexError
                /\ pc' = "raised"
                /\ UNCHANGED <<violations, cursor>>
           ELSE /\ violations' = violations \o SegmentRecords(row, located[3], char_limit)
                /\ cursor' = cursor + 1
                /\ UNCHANGED <<pc, error>>
    /\ UNCHANGED <<text, normalized, doc, char_limit, located, env, calls, report>>

\* Lines 187-191: the loop is over, the list is returned
Return ==
    /\ pc = "loop"
    /\ cursor = Len(TheTable)
    /\ pc' = "returned"
    /\ UNCHANGED <<text, normalized, doc, char_limit, located, cursor,
                   violations, error, env, calls, report>>

----------------------------------------------------------------------------
(* The documents and limits analyze_document is run on *)

Str1(c) == <<c>>

CellNum == <<"N", "u", "m">>
CellSource == <<"S", "o", "u", "r", "c", "e">>
CellTarget == <<"T", "a", "r", "g", "e", "t">>
CellX == <<"x">>

HeaderFull == <<CellNum, CellID, CellSource, CellTarget>>

SegId == <<"1", "2", " ", "(", "n", ")">>

DataRow(t) == <<Str1("1"), SegId, <<"s", "&">>, t>>

\* Rows that stop before the target column, before the source column
ShortRows == { <<Str1("2"), SegId, Str1("s")>>, <<Str1("2"), SegId>> }

TargetAlphabet == {"a", SP, "<", ">", LF}

ScenarioA ==
    <<"H", "e", "l", "l", "o", "<", "b", ">", "W", "o", "r", "l", "d", " ",
      "t", "h", "i", "s", " ", "i", "s", " ", "l", "o", "n", "g">>

ScenarioB ==
    <<"[", "t", "a", "g", "1", "]", "[", "t", "a", "g", "2", "]">>

CuratedTargets ==
    { <<"a", "<", "a", ">", "a", "a">>,
      <<"a", "a", "a", "{", "x", "}", "a">>,
      <<"<", "a", ">", "<", "a", ">">>,
      <<"a", "\"", "'", "&", "a">>,
      <<"a", CR, "<", "b", ">", "a", "a">>,
      <<"a", "a", CR, LF, SP, SP, LF, LF, "a", "a", "a">>,
      <<NBSP>>,
      <<"a", LF, NBSP, NBSP, NBSP>>,
      <<FF, "a", "a", VT, LF, FS, NEL, "U+2003">>,
      ScenarioB }

Targets == StringsUpTo(TargetAlphabet, MaxLen) \cup CuratedTargets

SecondRows ==
    { <<Str1("2"), SegId, Str1("s")>>,
      DataRow(<<"a", "<", "b", ">", "a", "a", "a">>),
      DataRow(<<SP>>) }

SegmentRows ==
    {<<>>}
    \cup { <<DataRow(t)>> : t \in Targets }
    \cup { <<DataRow(t), r>> : t \in Targets, r \in SecondRows }
    \cup { <<r, DataRow(<<"a", "a">>)>> : r \in ShortRows }

SegmentDocs == { << <<HeaderFull>> \o rows >> : rows \in SegmentRows }

SegmentLimits == {-1, 0, 1, 2}

\* Rows a header search meets: headers, near-headers and plain rows
LocatorRows ==
    { <<CellID, CellX, CellX>>,
      <<CellX, <<NBSP, SP, "I", "D", FF>>, CellX, CellX>>,
      <<CellX, CellID, CellX>>,
      <<CellX, CellX, CellID, CellID>>,
      <<CellID, CellX>>,
      <<CellX, <<"I", "D", "s">>, CellX>>,
      <<CellX, CellX, CellX>> }

\* The tables a sequence of rows falls into when cut after the rows in cuts
RECURSIVE CutRows(_, _, _, _)
CutRows(rows, cuts, i, cur) ==
    IF i > Len(rows) THEN (IF cur = <<>> THEN <<>> ELSE <<cur>>)
    ELSE IF i \in cuts
         THEN <<Append(cur, rows[i])>> \o CutRows(rows, cuts, i + 1, <<>>)
         ELSE CutRows(rows, cuts, i + 1, Append(cur, rows[i]))

LocatorDocs ==
    { CutRows(rows, cuts, 1, <<>>) :
        rows \in UNION {[1..n -> LocatorRows] : n \in 0..MaxDocRows},
        cuts \in SUBSET (1..(MaxDocRows - 1)) }

AnalyzeInputs ==
    (SegmentDocs \X SegmentLimits)
    \cup ({ << <<HeaderFull, DataRow(ScenarioA)>> >> } \X {10})
    \cup ({ << << <<CellNum, CellID, CellSource>>,
                  <<Str1("1"), SegId, <<"a", "a", "a">> >> >> >> } \X {1})
    \cup (LocatorDocs \X {0})

Unused ==
    /\ text = <<>>
    /\ normalized = None
    /\ env = None
    /\ calls = <<>>
    /\ report = [summary |-> [kind |-> "None", total |-> 0, limit |-> 0], rows |-> <<>>]

Init ==
    /\ pc = "analyze"
    /\ \E in \in AnalyzeInputs : doc = in[1] /\ char_limit = in[2]
    /\ located = NotFound
    /\ cursor = 0
    /\ violations = <<>>
    /\ error = NoError
    /\ Unused

Next == Locate \/ SegmentRow \/ Return

Spec == Init /\ [][Next]_vars

----------------------------------------------------------------------------
(* Reading a rendering back: character references and line entries *)

EscapedChars == {"&", "<", ">", "\"", "'"}

StartsWith(s, p) == Len(s) >= Len(p) /\ SubSeq(s, 1, Len(p)) = p

\* The character whose reference starts at position i of s, or None
HasAt(s, i, p) == i + Len(p) - 1 <= Len(s) /\ SubSeq(s, i, i + Len(p) - 1) = p

ReferenceAt(s, i) ==
    IF s[i] = "&" /\ \E c \in EscapedChars : HasAt(s, i, EscapeChar(c))
    THEN CHOOSE c \in EscapedChars : HasAt(s, i, EscapeChar(c))
    ELSE None

\* Decoding of the character references of a piece of markup, as the page's
\* parser does for an attribute value or for text: each reference becomes
\* its character, every other character stays.  A reference holds no "&"
\* after its first character, so references never overlap.
InsideReference(s, i) ==
    \E j \in (i - 5)..(i - 1) :
        /\ j >= 1
        /\ ReferenceAt(s, j) # None
        /\ i <= j + Len(EscapeChar(ReferenceAt(s, j))) - 1

DecodeAt(s, kept) ==
    [k \in 1..Len(kept) |->
        IF ReferenceAt(s, kept[k]) # None THEN ReferenceAt(s, kept[k])
        ELSE s[kept[k]]]

Unescape(s) ==
    DecodeAt(s, SelectSeq([i \in 1..Len(s) |-> i],
                          LAMBDA i : ~InsideReference(s, i)))

\* The pieces of a rendering that end at each <br>
RECURSIVE EntriesFrom(_, _)
EntriesFrom(h, cur) ==
    IF h = <<>> THEN (IF cur = <<>> THEN <<>> ELSE <<cur \o <<"?">> >>)
    ELSE IF StartsWith(h, BR)
         THEN <<cur>> \o EntriesFrom(SubSeq(h, Len(BR) + 1, Len(h)), <<>>)
         ELSE EntriesFrom(Tail(h), Append(cur, h[1]))

Entries(h) == EntriesFrom(h, <<>>)

MarkAt(e) == FirstIndexFrom(e, "<", 1)

HasMark(e) == MarkAt(e) > 0

WellMarked(e) ==
    HasMark(e) =>
        /\ StartsWith(SubSeq(e, MarkAt(e), Len(e)), SpanOpen)
        /\ Len(e) >= MarkAt(e) - 1 + Len(SpanOpen) + Len(SpanClose)
        /\ SubSeq(e, Len(e) - Len(SpanClose) + 1, Len(e)) = SpanClose

Unmarked(e) == IF HasMark(e) THEN SubSeq(e, 1, MarkAt(e) - 1) ELSE e

Marked(e) ==
    IF HasMark(e)
    THEN SubSeq(e, MarkAt(e) + Len(SpanOpen), Len(e) - Len(SpanClose))
    ELSE <<>>

----------------------------------------------------------------------------
(* Claims about analyze_document and find_bilingual_table *)

LoopEntered == cursor > 0

\* The data rows the loop has gone through so far
ProcessedTargets ==
    [k \in 1..(cursor - located[2] - 1) |->
        TheTable[located[2] + 1 + k][located[3] + 3]]

LogicalLines(t) == SplitLines(normalize_with_linebreaks(t))

IsBlank(l) == \A i \in 1..Len(l) : l[i] \in Whitespace

Overflows(t, limit) ==
    \E i \in 1..Len(LogicalLines(t)) :
        /\ ~IsBlank(LogicalLines(t)[i])
        /\ Len(LogicalLines(t)[i]) > limit

OnlyTagsOrWhitespace(t) ==
    \A i \in 1..Len(t) : i \in TagCover(t, 1) \/ t[i] \in Whitespace

\* C1: the rows that got a record are exactly the processed rows whose
\* normalized target has a non-blank line longer than char_limit, in row
\* order; no record is for a target of tags and whitespace only; every record
\* has max_len > char_limit.
C1_RecordIffOverLimit ==
    LoopEntered =>
        /\ [i \in 1..Len(violations) |-> violations[i].target]
              = SelectSeq(ProcessedTargets, LAMBDA t : Overflows(t, char_limit))
        /\ \A i \in 1..Len(violations) :
              /\ violations[i].max_len > char_limit
              /\ ~OnlyTagsOrWhitespace(violations[i].target)

C1_Witness ==
    /\ pc = "returned"
    /\ Len(violations) = 1
    /\ Len(ProcessedTargets) = 2
    /\ \E k \in 1..2 :
          /\ ~Overflows(ProcessedTargets[k], char_limit)
          /\ ~OnlyTagsOrWhitespace(ProcessedTargets[k])
    /\ \E k \in 1..2 :
          Overflows(ProcessedTargets[k], char_limit)
          /\ \E i \in 1..Len(ProcessedTargets[k]) : TagEnd(ProcessedTargets[k], i) > 0

NonBlankLines(t) == SelectSeq(LogicalLines(t), LAMBDA l : ~IsBlank(l))

\* The number of characters on the non-blank logical lines
NonBlankChars(t) ==
    Cardinality({ p \in (1..Len(LogicalLines(t))) \X (1..Len(t)) :
                    /\ ~IsBlank(LogicalLines(t)[p[1]])
                    /\ p[2] <= Len(LogicalLines(t)[p[1]]) })

\* C3: in every record, line_lengths is the lengths of the non-blank logical
\* lines in line order, segment_len their sum and max_len their maximum.
C3_LengthsConsistent ==
    \A i \in 1..Len(violations) :
        LET v == violations[i]
            nb == NonBlankLines(v.target)
        IN  /\ Len(v.line_lengths) = Len(nb)
            /\ \A k \in 1..Len(nb) : v.line_lengths[k] = Len(nb[k])
            /\ v.segment_len = NonBlankChars(v.target)
            /\ \E k \in 1..Len(nb) : v.max_len = Len(nb[k])
            /\ \A k \in 1..Len(nb) : v.max_len >= Len(nb[k])

C3_Witness ==
    /\ pc = "returned"
    /\ \E i \in 1..Len(violations) :
          /\ Len(violations[i].line_lengths) >= 2
          /\ Len(violations[i].line_lengths) < Len(LogicalLines(violations[i].target))
          /\ violations[i].max_len < violations[i].segment_len

\* A cell whose text is "ID" once leading and trailing whitespace is dropped
IsIDCell(cell) ==
    \E a \in 1..Len(cell) :
        /\ a + 1 <= Len(cell)
        /\ cell[a] = "I" /\ cell[a + 1] = "D"
        /\ \A i \in 1..Len(cell) : i \notin {a, a + 1} => cell[i] \in Whitespace

\* The (table, row) positions, 1-based, of the rows that qualify as header
Candidates ==
    { c \in UNION { { <<t, r>> : r \in 1..Len(doc[t]) } : t \in 1..Len(doc) } :
        /\ Len(doc[c[1]][c[2]]) >= 3
        /\ \E i \in 1..Len(doc[c[1]][c[2]]) : IsIDCell(doc[c[1]][c[2]][i]) }

Earlier(c, d) == c[1] < d[1] \/ (c[1] = d[1] /\ c[2] <= d[2])

FirstCandidate == CHOOSE c \in Candidates : \A d \in Candidates : Earlier(c, d)

FirstCandidateRow == doc[FirstCandidate[1]][FirstCandidate[2]]

FirstIDCell(row) ==
    CHOOSE i \in 1..Len(row) :
        IsIDCell(row[i]) /\ \A j \in 1..(i - 1) : ~IsIDCell(row[j])

\* C4: find_bilingual_table returns the first qualifying row in document
\* order with the index of its first "ID" cell, and the sentinel only when
\* no row of any table qualifies.
C4_FirstHeaderWins ==
    pc # "analyze" =>
        IF Candidates = {}
        THEN located = NotFound
        ELSE located = << FirstCandidate[1] - 1, FirstCandidate[2] - 1,
                          FirstIDCell(FirstCandidateRow) - 1 >>

C4_Witness ==
    /\ pc # "analyze"
    /\ located # NotFound
    /\ located[2] > 0
    /\ located[3] > 0
    /\ \E c \in Candidates : c[1] > located[1] + 1

\* The header row is found but has no cell at ID index + 2
ColumnLayoutInsufficient ==
    /\ Candidates # {}
    /\ FirstIDCell(FirstCandidateRow) - 1 + 2 >= Len(FirstCandidateRow)

\* C5: with no qualifying header row, or with a header row that has no
\* target column, analyze_document never enters its segment loop, raises
\* nothing and returns an empty list.
C5_NoUsableTableEmptyResult ==
    (Candidates = {} \/ ColumnLayoutInsufficient) =>
        /\ pc \in {"analyze", "returned"}
        /\ cursor = 0
        /\ violations = <<>>
        /\ error = NoError

ScenarioC ==
    << << <<CellNum, CellID, CellSource>>,
          <<Str1("1"), SegId, <<"a", "a", "a">> >> >> >>

C5_Witness ==
    /\ pc = "returned"
    /\ doc = ScenarioC
    /\ violations = <<>>

\* C6: a data row with too few cells ends the run with an error that names
\* the position of that row; such a row is never passed over and no list is
\* returned.
C6_ShortRowErrorNamesRow ==
    /\ pc = "raised" =>
          /\ "row" \in DOMAIN error
          /\ error.row = cursor
    /\ (pc = "returned" /\ LoopEntered) =>
          \A k \in (located[2] + 2)..Len(TheTable) :
              Len(TheTable[k]) >= located[3] + 3

\* The part of C6 the code does keep: the first short row ends the run with
\* an IndexError and no list is returned.
C6_ShortRowRaises ==
    /\ pc = "raised" =>
          /\ error = IndexError
          /\ Len(TheTable[cursor + 1]) < located[3] + 3
    /\ (pc = "returned" /\ LoopEntered) =>
          \A k \in (located[2] + 2)..Len(TheTable) :
              Len(TheTable[k]) >= located[3] + 3

ScenarioADoc == << <<HeaderFull, DataRow(ScenarioA)>> >>

Hello == <<"H", "e", "l", "l", "o">>

WorldThisIsLong ==
    <<"W", "o", "r", "l", "d", " ", "t", "h", "i", "s", " ", "i", "s", " ",
      "l", "o", "n", "g">>

ScenarioAOutcome(n) ==
    (doc = ScenarioADoc /\ char_limit = 10 /\ pc = "returned") =>
        /\ LogicalLines(ScenarioA) = <<Hello, WorldThisIsLong>>
        /\ Len(violations) = 1
        /\ violations[1].line_lengths[1] <= char_limit
        /\ violations[1].line_lengths[2] = n
        /\ violations[1].line_lengths[2] > char_limit
        /\ violations[1].max_len = n

\* C9 as stated: "Hello<b>World this is long" with limit 10 gives the lines
\* "Hello" and "World this is long", the second of length 19, max_len 19.
C9_ScenarioA_Length19 == ScenarioAOutcome(19)

\* C9 amended: the second line has length 18 and max_len is 18.
C9_ScenarioA_Length18 == ScenarioAOutcome(18)

C9_Witness ==
    /\ doc = ScenarioADoc
    /\ char_limit = 10
    /\ pc = "returned"
    /\ Len(violations) = 1

HighlightSplitsAtLimit(v, limit) ==
    LET lines == LogicalLines(v.target)
        es == Entries(v.highlighted_target_html)
    IN  /\ Len(es) = Len(lines)
        /\ v.highlighted_target_html
              = Concat([i \in 1..Len(es) |-> es[i] \o BR])
        /\ \A i \in 1..Len(lines) :
              /\ WellMarked(es[i])
              /\ HasMark(es[i]) <=> Len(lines[i]) > limit
              /\ ~HasMark(es[i]) => es[i] = Escape(lines[i])
              /\ Unescape(Unmarked(es[i])) \o Unescape(Marked(es[i])) = lines[i]
              /\ HasMark(es[i]) =>
                    /\ Len(Unescape(Unmarked(es[i]))) = limit
                    /\ Len(Unescape(Marked(es[i]))) = Len(lines[i]) - limit

\* C10: the rendering of every record has one entry per logical line, each
\* ended by one line break; a line within the limit is escaped and unmarked,
\* a longer one has its first char_limit characters unmarked and the rest
\* marked, nothing lost; a mark is there exactly when the line is too long.
C10_HighlightSplitsAtLimit ==
    \A i \in 1..Len(violations) : HighlightSplitsAtLimit(violations[i], char_limit)

\* The same for the limits that are not negative
C10_HoldsFromZero ==
    char_limit >= 0 => C10_HighlightSplitsAtLimit

C10_Witness ==
    /\ pc = "returned"
    /\ char_limit >= 1
    /\ \E i \in 1..Len(violations) :
          LET es == Entries(violations[i].highlighted_target_html)
          IN  /\ Len(es) >= 3
              /\ \E k \in 1..Len(es) : HasMark(es[k]) /\ Unmarked(es[k]) # <<>>
              /\ \E k \in 1..Len(es) : ~HasMark(es[k]) /\ es[k] # <<>>
              /\ \E k \in 1..Len(es) : es[k] = <<>>

----------------------------------------------------------------------------
(* build_html_report and the page it writes *)

\* The first item of s.split(), s starting with a character that is not
\* whitespace
RECURSIVE TakeToken(_)
TakeToken(s) ==
    IF s = <<>> THEN <<>>
    ELSE IF Head(s) \in Whitespace THEN <<>>
    ELSE <<Head(s)>> \o TakeToken(Tail(s))

\* What [][0] raises
ListIndexError == [type |-> "IndexError", args |-> <<"list index out of range">>]

\* full_id.split() is the empty list though full_id is not the empty string
IdShortRaises(full_id) == full_id # <<>> /\ LStrip(full_id) = <<>>

\* full_id.split()[0] if full_id else "": the first token, or the exception
\* raised in its place
IdShort(full_id) ==
    IF full_id = <<>> THEN <<>>
    ELSE IF IdShortRaises(full_id) THEN ListIndexError
    ELSE TakeToken(LStrip(full_id))

Spaces(n) == [i \in 1..n |-> SP]

\* html.escape(s, quote=False)
EscapeNoQuote(s) ==
    Concat([i \in 1..Len(s) |->
              IF s[i] \in {"\"", "'"} THEN <<s[i]>> ELSE EscapeChar(s[i])])

DataOriginalHtmlUnquoted(target_html) == EscapeNoQuote(target_html)

\* data_original_html = html.escape(target_html, quote=True)
DataOriginalHtml(target_html) == Escape(target_html)

\* One target container as written into the page: the text of its
\* data-original-html attribute, the markup inside .target-text, and the
\* contenteditable flag; with the other cells of the row
ReportRow(v) ==
    [ id_html |-> Escape(IdShort(v.id)),
      src_html |-> Escape(v.source),
      data_original_html |-> DataOriginalHtml(v.highlighted_target_html),
      target_text |-> <<LF>> \o Spaces(16) \o v.highlighted_target_html
                        \o <<LF>> \o Spaces(12),
      contenteditable |-> FALSE,
      line_length |-> v.max_len,
      segment_length |-> IF "segment_len" \in DOMAIN v THEN v.segment_len
                         ELSE SumOf(v.line_lengths) ]

\* v[key] of a record without the key
KeyError(key) == [type |-> "KeyError", args |-> <<key>>]

\* What the body of the row loop, lines 219-252, raises on record v, in the
\* order in which it reads the record
RowError(v) ==
    IF "id" \notin DOMAIN v THEN KeyError("id")
    ELSE IF IdShortRaises(v.id) THEN ListIndexError
    ELSE IF "source" \notin DOMAIN v THEN KeyError("source")
    ELSE IF "highlighted_target_html" \notin DOMAIN v
         THEN KeyError("highlighted_target_html")
    ELSE IF "max_len" \notin DOMAIN v THEN KeyError("max_len")
    ELSE IF "line_lengths" \notin DOMAIN v THEN KeyError("line_lengths")
    ELSE NoError

\* The row loop raises on one of the records
BuildRaises(vs) == \E i \in 1..Len(vs) : RowError(vs[i]) # NoError

\* The page written, or the exception raised before anything is written
build_html_report(vs, limit) ==
  IF BuildRaises(vs)
  THEN RowError(vs[CHOOSE i \in 1..Len(vs) :
                      /\ RowError(vs[i]) # NoError
                      /\ \A j \in 1..(i - 1) : RowError(vs[j]) = NoError])
  ELSE
    [ summary |-> IF Len(vs) = 0
                  THEN [kind |-> "NO SEGMENTS EXCEED THE LIMIT", total |-> 0, limit |-> limit]
                  ELSE [kind |-> "Found segments", total |-> Len(vs), limit |-> limit],
      rows |-> [i \in 1..Len(vs) |-> ReportRow(vs[i])] ]

NoReport == [summary |-> [kind |-> "None", total |-> 0, limit |-> 0], rows |-> <<>>]

\* The value of an attribute written as name="...": the text up to the
\* closing quote, character references decoded
UpToQuote(s) ==
    LET quotes == { i \in 1..Len(s) : s[i] = "\"" }
    IN  IF quotes = {} THEN s
        ELSE SubSeq(s, 1, (CHOOSE i \in quotes : \A j \in quotes : i <= j) - 1)

\* container.getAttribute('data-original-html')
GetOriginalHtml(row) == Unescape(UpToQuote(row.data_original_html))

\* Click on the edit button of row i
ClickEdit(i) ==
    /\ pc = "page"
    /\ report' = [report EXCEPT !.rows[i].contenteditable = ~@]
    /\ UNCHANGED <<pc, text, normalized, doc, char_limit, located, cursor,
                   violations, error, env, calls>>

\* Click on the reset button of row i
ClickReset(i) ==
    /\ pc = "page"
    /\ report' = [report EXCEPT !.rows[i].target_text = GetOriginalHtml(report.rows[i]),
                                !.rows[i].contenteditable = FALSE]
    /\ UNCHANGED <<pc, text, normalized, doc, char_limit, located, cursor,
                   violations, error, env, calls>>

\* What a user of the page may leave in an editable cell
EditedTexts ==
    { <<"x">>, <<"a", "&", "l", "t", ";">>, SpanOpen \o <<"x">> \o SpanClose }

\* The user edits the text of row i, which the page allows only while the
\* cell is editable
TypeInCell(i, new) ==
    /\ pc = "page"
    /\ report.rows[i].contenteditable
    /\ report' = [report EXCEPT !.rows[i].target_text = new]
    /\ UNCHANGED <<pc, text, normalized, doc, char_limit, located, cursor,
                   violations, error, env, calls>>

ReportTargets ==
    { <<"a", LF, "<", "a", "a">>,
      <<"a", "&", "\"", "'">>,
      <<"a", "a", "<", "b", ">", LF, "a", ">", "a">>,
      <<SP>> }

ReportLimits == {1, 2}

RECURSIVE RecordsOf(_, _)
RecordsOf(targets, limit) ==
    IF targets = <<>> THEN <<>>
    ELSE SegmentRecords(DataRow(Head(targets)), 1, limit)
            \o RecordsOf(Tail(targets), limit)

InitReport ==
    /\ pc = "page"
    /\ \E ts \in UNION {[1..n -> ReportTargets] : n \in 1..2}, limit \in ReportLimits :
          /\ doc = << <<HeaderFull>> \o [k \in 1..Len(ts) |-> DataRow(ts[k])] >>
          /\ char_limit = limit
          /\ violations = RecordsOf(ts, limit)
          /\ report = build_html_report(RecordsOf(ts, limit), limit)
    /\ located = <<0, 0, 1>>
    /\ cursor = Len(doc[1])
    /\ error = NoError
    /\ text = <<>>
    /\ normalized = None
    /\ env = None
    /\ calls = <<>>

NextReport ==
    \/ \E i \in 1..Len(report.rows) : ClickEdit(i)
    \/ \E i \in 1..Len(report.rows) : ClickReset(i)
    \/ \E i \in 1..Len(report.rows), new \in EditedTexts : TypeInCell(i, new)

SpecReport == InitReport /\ [][NextReport]_vars

\* C8: a reset click on a row, whatever toggles, edits and resets came
\* before, leaves the cell holding exactly the rendering analyze_document
\* produced for that row and not editable; and no interaction changes the
\* hidden copy.
C8_ResetRestoresRendering ==
    [][ /\ \A i \in 1..Len(report.rows) :
              ClickReset(i) =>
                  /\ report'.rows[i].target_text = violations[i].highlighted_target_html
                  /\ ~report'.rows[i].contenteditable
        /\ \A i \in 1..Len(report.rows) :
              report'.rows[i].data_original_html = report.rows[i].data_original_html
      ]_vars

\* A row that was reset (its cell holds the rendering without the padding
\* the page is written with) next to a row that holds an edit
C8_Witness ==
    /\ pc = "page"
    /\ Len(report.rows) = 2
    /\ report.rows[1].target_text = violations[1].highlighted_target_html
    /\ ~report.rows[1].contenteditable
    /\ \E k \in 1..Len(violations[1].highlighted_target_html) :
          violations[1].highlighted_target_html[k] = "\""
    /\ report.rows[2].target_text \in EditedTexts
    /\ report.rows[2].contenteditable

----------------------------------------------------------------------------
(* main *)

\* The decimal digits of Unicode, which are the digits of int(): one row for
\* each script, the digits 0 to 9 in order
DecimalDigits ==
    <<
      <<"0", "1", "2", "3", "4",
        "5", "6", "7", "8", "9">>,
      <<"U+0660", "U+0661", "U+0662", "U+0663", "U+0664",
        "U+0665", "U+0666", "U+0667", "U+0668", "U+0669">>,
      <<"U+06F0", "U+06F1", "U+06F2", "U+06F3", "U+06F4",
        "U+06F5", "U+06F6", "U+06F7", "U+06F8", "U+06F9">>,
      <<"U+07C0", "U+07C1", "U+07C2", "U+07C3", "U+07C4",
        "U+07C5", "U+07C6", "U+07C7", "U+07C8", "U+07C9">>,
      <<"U+0966", "U+0967", "U+0968", "U+0969", "U+096A",
        "U+096B", "U+096C", "U+096D", "U+096E", "U+096F">>,
      <<"U+09E6", "U+09E7", "U+09E8", "U+09E9", "U+09EA",
        "U+09EB", "U+09EC", "U+09ED", "U+09EE", "U+09EF">>,
      <<"U+0A66", "U+0A67", "U+0A68", "U+0A69", "U+0A6A",
        "U+0A6B", "U+0A6C", "U+0A6D", "U+0A6E", "U+0A6F">>,
      <<"U+0AE6", "U+0AE7", "U+0AE8", "U+0AE9", "U+0AEA",
        "U+0AEB", "U+0AEC", "U+0AED", "U+0AEE", "U+0AEF">>,
      <<"U+0B66", "U+0B67", "U+0B68", "U+0B69", "U+0B6A",
        "U+0B6B", "U+0B6C", "U+0B6D", "U+0B6E", "U+0B6F">>,
      <<"U+0BE6", "U+0BE7", "U+0BE8", "U+0BE9", "U+0BEA",
        "U+0BEB", "U+0BEC", "U+0BED", "U+0BEE", "U+0BEF">>,
      <<"U+0C66", "U+0C67", "U+0C68", "U+0C69", "U+0C6A",
        "U+0C6B", "U+0C6C", "U+0C6D", "U+0C6E", "U+0C6F">>,
      <<"U+0CE6", "U+0CE7", "U+0CE8", "U+0CE9", "U+0CEA",
        "U+0CEB", "U+0CEC", "U+0CED", "U+0CEE", "U+0CEF">>,
      <<"U+0D66", "U+0D67", "U+0D68", "U+0D69", "U+0D6A",
        "U+0D6B", "U+0D6C", "U+0D6D", "U+0D6E", "U+0D6F">>,
      <<"U+0DE6", "U+0DE7", "U+0DE8", "U+0DE9", "U+0DEA",
        "U+0DEB", "U+0DEC", "U+0DED", "U+0DEE", "U+0DEF">>,
      <<"U+0E50", "U+0E51", "U+0E52", "U+0E53", "U+0E54",
        "U+0E55", "U+0E56", "U+0E57", "U+0E58", "U+0E59">>,
      <<"U+0ED0", "U+0ED1", "U+0ED2", "U+0ED3", "U+0ED4",
        "U+0ED5", "U+0ED6", "U+0ED7", "U+0ED8", "U+0ED9">>,
      <<"U+0F20", "U+0F21", "U+0F22", "U+0F23", "U+0F24",
        "U+0F25", "U+0F26", "U+0F27", "U+0F28", "U+0F29">>,
      <<"U+1040", "U+1041", "U+1042", "U+1043", "U+1044",
        "U+1045", "U+1046", "U+1047", "U+1048", "U+1049">>,
      <<"U+1090", "U+1091", "U+1092", "U+1093", "U+1094",
        "U+1095", "U+1096", "U+1097", "U+1098", "U+1099">>,
      <<"U+17E0", "U+17E1", "U+17E2", "U+17E3", "U+17E4",
        "U+17E5", "U+17E6", "U+17E7", "U+17E8", "U+17E9">>,
      <<"U+1810", "U+1811", "U+1812", "U+1813", "U+1814",
        "U+1815", "U+1816", "U+1817", "U+1818", "U+1819">>,
      <<"U+1946", "U+1947", "U+1948", "U+1949", "U+194A",
        "U+194B", "U+194C", "U+194D", "U+194E", "U+194F">>,
      <<"U+19D0", "U+19D1", "U+19D2", "U+19D3", "U+19D4",
        "U+19D5", "U+19D6", "U+19D7", "U+19D8", "U+19D9">>,
      <<"U+1A80", "U+1A81", "U+1A82", "U+1A83", "U+1A84",
        "U+1A85", "U+1A86", "U+1A87", "U+1A88", "U+1A89">>,
      <<"U+1A90", "U+1A91", "U+1A92", "U+1A93", "U+1A94",
        "U+1A95", "U+1A96", "U+1A97", "U+1A98", "U+1A99">>,
      <<"U+1B50", "U+1B51", "U+1B52", "U+1B53", "U+1B54",
        "U+1B55", "U+1B56", "U+1B57", "U+1B58", "U+1B59">>,
      <<"U+1BB0", "U+1BB1", "U+1BB2", "U+1BB3", "U+1BB4",
        "U+1BB5", "U+1BB6", "U+1BB7", "U+1BB8", "U+1BB9">>,
      <<"U+1C40", "U+1C41", "U+1C42", "U+1C43", "U+1C44",
        "U+1C45", "U+1C46", "U+1C47", "U+1C48", "U+1C49">>,
      <<"U+1C50", "U+1C51", "U+1C52", "U+1C53", "U+1C54",
        "U+1C55", "U+1C56", "U+1C57", "U+1C58", "U+1C59">>,
      <<"U+A620", "U+A621", "U+A622", "U+A623", "U+A624",
        "U+A625", "U+A626", "U+A627", "U+A628", "U+A629">>,
      <<"U+A8D0", "U+A8D1", "U+A8D2", "U+A8D3", "U+A8D4",
        "U+A8D5", "U+A8D6", "U+A8D7", "U+A8D8", "U+A8D9">>,
      <<"U+A900", "U+A901", "U+A902", "U+A903", "U+A904",
        "U+A905", "U+A906", "U+A907", "U+A908", "U+A909">>,
      <<"U+A9D0", "U+A9D1", "U+A9D2", "U+A9D3", "U+A9D4",
        "U+A9D5", "U+A9D6", "U+A9D7", "U+A9D8", "U+A9D9">>,
      <<"U+A9F0", "U+A9F1", "U+A9F2", "U+A9F3", "U+A9F4",
        "U+A9F5", "U+A9F6", "U+A9F7", "U+A9F8", "U+A9F9">>,
      <<"U+AA50", "U+AA51", "U+AA52", "U+AA53", "U+AA54",
        "U+AA55", "U+AA56", "U+AA57", "U+AA58", "U+AA59">>,
      <<"U+ABF0", "U+ABF1", "U+ABF2", "U+ABF3", "U+ABF4",
        "U+ABF5", "U+ABF6", "U+ABF7", "U+ABF8", "U+ABF9">>,
      <<"U+FF10", "U+FF11", "U+FF12", "U+FF13", "U+FF14",
        "U+FF15", "U+FF16", "U+FF17", "U+FF18", "U+FF19">>,
      <<"U+104A0", "U+104A1", "U+104A2", "U+104A3", "U+104A4",
        "U+104A5", "U+104A6", "U+104A7", "U+104A8", "U+104A9">>,
      <<"U+10D30", "U+10D31", "U+10D32", "U+10D33", "U+10D34",
        "U+10D35", "U+10D36", "U+10D37", "U+10D38", "U+10D39">>,
      <<"U+11066", "U+11067", "U+11068", "U+11069", "U+1106A",
        "U+1106B", "U+1106C", "U+1106D", "U+1106E", "U+1106F">>,
      <<"U+110F0", "U+110F1", "U+110F2", "U+110F3", "U+110F4",
        "U+110F5", "U+110F6", "U+110F7", "U+110F8", "U+110F9">>,
      <<"U+11136", "U+11137", "U+11138", "U+11139", "U+1113A",
        "U+1113B", "U+1113C", "U+1113D", "U+1113E", "U+1113F">>,
      <<"U+111D0", "U+111D1", "U+111D2", "U+111D3", "U+111D4",
        "U+111D5", "U+111D6", "U+111D7", "U+111D8", "U+111D9">>,
      <<"U+112F0", "U+112F1", "U+112F2", "U+112F3", "U+112F4",
        "U+112F5", "U+112F6", "U+112F7", "U+112F8", "U+112F9">>,
      <<"U+11450", "U+11451", "U+11452", "U+11453", "U+11454",
        "U+11455", "U+11456", "U+11457", "U+11458", "U+11459">>,
      <<"U+114D0", "U+114D1", "U+114D2", "U+114D3", "U+114D4",
        "U+114D5", "U+114D6", "U+114D7", "U+114D8", "U+114D9">>,
      <<"U+11650", "U+11651", "U+11652", "U+11653", "U+11654",
        "U+11655", "U+11656", "U+11657", "U+11658", "U+11659">>,
      <<"U+116C0", "U+116C1", "U+116C2", "U+116C3", "U+116C4",
        "U+116C5", "U+116C6", "U+116C7", "U+116C8", "U+116C9">>,
      <<"U+11730", "U+11731", "U+11732", "U+11733", "U+11734",
        "U+11735", "U+11736", "U+11737", "U+11738", "U+11739">>,
      <<"U+118E0", "U+118E1", "U+118E2", "U+118E3", "U+118E4",
        "U+118E5", "U+118E6", "U+118E7", "U+118E8", "U+118E9">>,
      <<"U+11950", "U+11951", "U+11952", "U+11953", "U+11954",
        "U+11955", "U+11956", "U+11957", "U+11958", "U+11959">>,
      <<"U+11C50", "U+11C51", "U+11C52", "U+11C53", "U+11C54",
        "U+11C55", "U+11C56", "U+11C57", "U+11C58", "U+11C59">>,
      <<"U+11D50", "U+11D51", "U+11D52", "U+11D53", "U+11D54",
        "U+11D55", "U+11D56", "U+11D57", "U+11D58", "U+11D59">>,
      <<"U+11DA0", "U+11DA1", "U+11DA2", "U+11DA3", "U+11DA4",
        "U+11DA5", "U+11DA6", "U+11DA7", "U+11DA8", "U+11DA9">>,
      <<"U+16A60", "U+16A61", "U+16A62", "U+16A63", "U+16A64",
        "U+16A65", "U+16A66", "U+16A67", "U+16A68", "U+16A69">>,
      <<"U+16AC0", "U+16AC1", "U+16AC2", "U+16AC3", "U+16AC4",
        "U+16AC5", "U+16AC6", "U+16AC7", "U+16AC8", "U+16AC9">>,
      <<"U+16B50", "U+16B51", "U+16B52", "U+16B53", "U+16B54",
        "U+16B55", "U+16B56", "U+16B57", "U+16B58", "U+16B59">>,
      <<"U+1D7CE", "U+1D7CF", "U+1D7D0", "U+1D7D1", "U+1D7D2",
        "U+1D7D3", "U+1D7D4", "U+1D7D5", "U+1D7D6", "U+1D7D7">>,
      <<"U+1D7D8", "U+1D7D9", "U+1D7DA", "U+1D7DB", "U+1D7DC",
        "U+1D7DD", "U+1D7DE", "U+1D7DF", "U+1D7E0", "U+1D7E1">>,
      <<"U+1D7E2", "U+1D7E3", "U+1D7E4", "U+1D7E5", "U+1D7E6",
        "U+1D7E7", "U+1D7E8", "U+1D7E9", "U+1D7EA", "U+1D7EB">>,
      <<"U+1D7EC", "U+1D7ED", "U+1D7EE", "U+1D7EF", "U+1D7F0",
        "U+1D7F1", "U+1D7F2", "U+1D7F3", "U+1D7F4", "U+1D7F5">>,
      <<"U+1D7F6", "U+1D7F7", "U+1D7F8", "U+1D7F9", "U+1D7FA",
        "U+1D7FB", "U+1D7FC", "U+1D7FD", "U+1D7FE", "U+1D7FF">>,
      <<"U+1E140", "U+1E141", "U+1E142", "U+1E143", "U+1E144",
        "U+1E145", "U+1E146", "U+1E147", "U+1E148", "U+1E149">>,
      <<"U+1E2F0", "U+1E2F1", "U+1E2F2", "U+1E2F3", "U+1E2F4",
        "U+1E2F5", "U+1E2F6", "U+1E2F7", "U+1E2F8", "U+1E2F9">>,
      <<"U+1E950", "U+1E951", "U+1E952", "U+1E953", "U+1E954",
        "U+1E955", "U+1E956", "U+1E957", "U+1E958", "U+1E959">>,
      <<"U+1FBF0", "U+1FBF1", "U+1FBF2", "U+1FBF3", "U+1FBF4",
        "U+1FBF5", "U+1FBF6", "U+1FBF7", "U+1FBF8", "U+1FBF9">>
    >>

Digits ==
    UNION { {DecimalDigits[r][k] : k \in 1..10} : r \in 1..Len(DecimalDigits) }

DigitValue(c) ==
    (CHOOSE k \in 1..10 : \E r \in 1..Len(DecimalDigits) : DecimalDigits[r][k] = c) - 1

\* The value of a run of decimal digits
RECURSIVE DecimalValue(_)
DecimalValue(ds) ==
    IF ds = <<>> THEN 0
    ELSE 10 * DecimalValue(SubSeq(ds, 1, Len(ds) - 1)) + DigitValue(ds[Len(ds)])

\* Digits, with single underscores allowed between two digits
DigitsWithUnderscores(s) ==
    /\ s # <<>>
    /\ \A i \in 1..Len(s) :
          \/ s[i] \in Digits
          \/ /\ s[i] = "_"
             /\ 1 < i /\ i < Len(s)
             /\ s[i - 1] \in Digits /\ s[i + 1] \in Digits

\* The whitespace int() drops around the number: that of str.strip() but for
\* the four separators U+001C to U+001F
IntWhitespace == Whitespace \ {FS, GS, RS, US}

RECURSIVE IntStrip(_)
IntStrip(s) ==
    IF s = <<>> THEN <<>>
    ELSE IF Head(s) \in IntWhitespace THEN IntStrip(Tail(s))
    ELSE IF s[Len(s)] \in IntWhitespace THEN IntStrip(SubSeq(s, 1, Len(s) - 1))
    ELSE s

\* sys.get_int_max_str_digits(): int() raises ValueError on more digits
MaxStrDigits == 4300

\* int(s) does not raise ValueError: whitespace around, an optional sign,
\* digits with single underscores between them, no more digits than
\* MaxStrDigits
IntAccepts(s) ==
    LET t == IntStrip(s)
    IN  /\ IF t # <<>> /\ t[1] \in {"-", "+"}
           THEN DigitsWithUnderscores(Tail(t))
           ELSE DigitsWithUnderscores(t)
        /\ Len(SelectSeq(t, LAMBDA c : c \in Digits)) <= MaxStrDigits

\* int(s) where it does not raise ValueError
IntValue(s) ==
    LET t == SelectSeq(IntStrip(s), LAMBDA c : c # "_")
    IN  IF t[1] = "-" THEN 0 - DecimalValue(Tail(t))
        ELSE IF t[1] = "+" THEN DecimalValue(Tail(t))
        ELSE DecimalValue(t)

\* The letters of ".docx", ".rtf" and ".rtx" with their capitals: no other
\* character has one of these letters, or the dot, in its str.lower()
CasePairs ==
    { <<"D", "d">>, <<"O", "o">>, <<"C", "c">>, <<"X", "x">>,
      <<"R", "r">>, <<"T", "t">>, <<"F", "f">> }

\* c.lower() == l, for l a character of one of the three suffixes
LowersTo(c, l) == c = l \/ <<c, l>> \in CasePairs

\* s.lower() == suffix, for suffix one of the three suffixes
LowerEquals(s, suffix) ==
    /\ Len(s) = Len(suffix)
    /\ \A i \in 1..Len(s) : LowersTo(s[i], suffix[i])

\* s.lower().endswith(suffix)
LowerEndsWith(s, suffix) ==
    /\ Len(s) >= Len(suffix)
    /\ LowerEquals(SubSeq(s, Len(s) - Len(suffix) + 1, Len(s)), suffix)

DotDocx == <<".", "d", "o", "c", "x">>
DotRtf == <<".", "r", "t", "f">>
DotRtx == <<".", "r", "t", "x">>

\* os.path.splitext(os.path.join(current_dir, name))[1]: the name from its
\* last dot on, unless only dots come before that dot
Splitext(name) ==
    LET dots == { i \in 1..Len(name) : name[i] = "." }
    IN  IF dots = {} THEN <<>>
        ELSE LET dotIndex == CHOOSE i \in dots : \A j \in dots : j <= i
             IN  IF \E k \in 1..(dotIndex - 1) : name[k] # "."
                 THEN SubSeq(name, dotIndex, Len(name))
                 ELSE <<>>

File(name, isfile) == [name |-> name, isfile |-> isfile]

\* Directory listings in os.listdir order: each entry is a name and whether
\* os.path.isfile holds of it
Listings ==
    { <<>>,
      << File(<<"a", ".", "d", "o", "c", "x">>, TRUE) >>,
      << File(<<"b", ".", "r", "t", "f">>, TRUE),
         File(<<"c", ".", "t", "x", "t">>, TRUE) >>,
      << File(<<"d", ".", "R", "T", "X">>, TRUE),
         File(<<"a", ".", "d", "o", "c", "x">>, FALSE) >>,
      << File(<<".", "d", "o", "c", "x">>, TRUE),
         File(<<"A", ".", "D", "O", "C", "X">>, TRUE) >>,
      << File(<<"a", ".", "d", "o", "c", "x", ".", "b", "a", "k">>, TRUE),
         File(<<"b", ".", "D", "o", "c", "x">>, TRUE) >> }

\* [f for f in files if f.lower().endswith(s) for one of the suffixes s]
WithExt(files, exts) ==
    SelectSeq(files, LAMBDA f : \E e \in exts : LowerEndsWith(f.name, e))

\* Lines 489-518: the dependency, the file to read
MainChooseFile ==
    /\ pc = "main"
    /\ IF ~env.dep_ok THEN pc' = "main_raised"
       ELSE LET docx_files == WithExt(env.files, {DotDocx})
                rtf_like_files == WithExt(env.files, {DotRtf, DotRtx})
            IN  IF docx_files = <<>> /\ rtf_like_files = <<>> THEN pc' = "main_returned"
                ELSE LET chosen == IF docx_files # <<>> THEN docx_files[1]
                                   ELSE rtf_like_files[1]
                     IN  IF ~chosen.isfile THEN pc' = "main_returned"
                         ELSE IF ~LowerEquals(Splitext(chosen.name), DotDocx)
                              THEN pc' = "main_returned"
                         ELSE pc' = "prompt"
    /\ UNCHANGED <<text, normalized, doc, char_limit, located, cursor,
                   violations, error, env, calls, report>>

\* What input() raises at the end of the input, which the except clause of
\* line 523 does not catch
EOFError == [type |-> "EOFError", args |-> <<"EOF when reading a line">>]

\* Lines 520-527: the limit is read and parsed, analyze_document is called
MainReadLimit ==
    /\ pc = "prompt"
    /\ IF env.eof
       THEN /\ error' = EOFError
            /\ pc' = "main_raised"
            /\ UNCHANGED <<char_limit, calls>>
       ELSE IF ~IntAccepts(Strip(env.limit_str))
       THEN /\ pc' = "main_returned"
            /\ UNCHANGED <<char_limit, calls, error>>
       ELSE /\ char_limit' = IntValue(Strip(env.limit_str))
            /\ calls' = Append(calls, [fn |-> "analyze_document",
                                       char_limit |-> IntValue(Strip(env.limit_str))])
            /\ pc' = "analyze"
            /\ UNCHANGED error
    /\ UNCHANGED <<text, normalized, doc, located, cursor, violations,
                   env, report>>

\* Lines 529-532: the report is built from what analyze_document returned
MainBuildReport ==
    /\ pc = "returned"
    /\ Len(calls) = 1
    /\ calls' = Append(calls, [fn |-> "build_html_report", char_limit |-> char_limit])
    /\ IF BuildRaises(violations)
       THEN /\ error' = build_html_report(violations, char_limit)
            /\ pc' = "main_raised"
            /\ UNCHANGED report
       ELSE /\ report' = build_html_report(violations, char_limit)
            /\ pc' = "main_done"
            /\ UNCHANGED error
    /\ UNCHANGED <<text, normalized, doc, char_limit, located, cursor,
                   violations, env>>

LimitAlphabet == {"-", "0", "1", "U+0663", "_", "a", SP, NBSP}

MainDocs ==
    { << <<HeaderFull, DataRow(<<"a", "a", "<", "b", ">", "a">>), DataRow(<<"a">>)>> >>,
      << <<HeaderFull, DataRow(<<"a", "a">>), <<Str1("2"), SegId>> >> >>,
      << << <<CellNum, CellX, CellX>> >> >> }

InitMain ==
    /\ pc = "main"
    /\ env \in [dep_ok : BOOLEAN, files : Listings, eof : {FALSE},
                limit_str : StringsUpTo(LimitAlphabet, MaxLimitLen)]
              \cup [dep_ok : BOOLEAN, files : Listings, eof : {TRUE},
                     limit_str : {<<>>}]
    /\ doc \in MainDocs
    /\ char_limit = 0
    /\ located = NotFound
    /\ cursor = 0
    /\ violations = <<>>
    /\ error = NoError
    /\ text = <<>>
    /\ normalized = None
    /\ calls = <<>>
    /\ report = NoReport

NextMain ==
    \/ MainChooseFile
    \/ MainReadLimit
    \/ Locate
    \/ SegmentRow
    \/ Return
    \/ MainBuildReport

SpecMain == InitMain /\ [][NextMain]_vars

\* C7: main calls analyze_document and build_html_report only with a
\* character limit that is a positive integer.
C7_OnlyPositiveLimit ==
    \A i \in 1..Len(calls) : calls[i].char_limit > 0

\* What main does keep out: text that is not an integer
C7_OnlyIntegerLimit ==
    calls # <<>> =>
        /\ IntAccepts(Strip(env.limit_str))
        /\ \A i \in 1..Len(calls) :
              calls[i].char_limit = IntValue(Strip(env.limit_str))

====
